---- MODULE Spec2Model ----
(***************************************************************************)
(* Model of the basestamp TypeScript client:                               *)
(*   src/src/merkle.ts  hashPair, verifyMerkleProof, calculateSHA256       *)
(*   src/src/types.ts   Stamp, MerkleProof, BasestampError                 *)
(*   src/src/client.ts  BasestampClient and its requests                   *)
(*                                                                         *)
(* A JavaScript string is a sequence of character codes (ASCII), a Buffer  *)
(* is a sequence of bytes 0..255.  An optional value (x?: T) is the empty  *)
(* sequence when absent and the one-element sequence <<x>> when present.   *)
(***************************************************************************)
EXTENDS Integers, Sequences, FiniteSets, TLC

VARIABLES
    mproof,      \* SpecMerkle: the argument handed to verifyMerkleProof
    mresult,     \* SpecMerkle: what the last verifyMerkleProof call returned
    maccepted,   \* SpecMerkle: root hashes accepted so far for this leaf and path
    mflip,       \* SpecMerkle: the direction bit flipped last and the result before it
    pair,        \* SpecHashPair: the operands of hashPair and what it returned
    tree,        \* SpecTree: the leaves a tree is built from and the leaf proved
    sdata,       \* SpecStamp: the StampData record a Stamp is built from
    stamp,       \* SpecStamp: the constructed Stamp
    scandidate,  \* SpecStamp: argument of the last Stamp.verify call
    sresult,     \* SpecStamp: outcome of the last Stamp.verify call
    heap,        \* SpecAlias: the objects reachable from a Stamp and their owners
    calls,       \* Spec: the calls made on one BasestampClient
    net,         \* Spec: the requests the transport has been handed
    req          \* SpecRequest: one makeRequest call and its abort timer

merkleVars == <<mproof, mresult, maccepted, mflip>>

stampVars == <<sdata, stamp, scandidate, sresult>>

clientVars == <<calls, net>>

vars == <<mproof, mresult, maccepted, mflip, pair, tree, sdata, stamp, scandidate,
          sresult, heap, calls, net, req>>

\* the variables an action of one part of the model leaves alone
notMerkle == <<pair, tree, stampVars, heap, clientVars, req>>

notStamp == <<merkleVars, pair, tree, heap, clientVars, req>>

notClient == <<merkleVars, pair, tree, stampVars, heap, req>>

-----------------------------------------------------------------------------
(* Bounds of the model *)

\* longest sibling path drawn as an input
MaxSiblings == 2

\* width of the modelled digest in bytes (SHA-256 has 32)
DigestBytes == 1

\* most leaves of a tree a proof is built from
MaxLeaves == 3

-----------------------------------------------------------------------------
(* Optional values *)

None == <<>>

Some(x) == <<x>>

-----------------------------------------------------------------------------
(* JavaScript strings and Buffers *)

EmptyStr == <<>>

\* the value of a string-typed field that the record does not carry
Undefined == <<-1>>

\* JavaScript truthiness of a string-typed field: undefined and '' are falsy
Truthy(s) == s # Undefined /\ s # EmptyStr

IsHexChar(c) == c \in (48..57) \cup (65..70) \cup (97..102)

HexVal(c) == IF c \in 48..57 THEN c - 48
             ELSE IF c \in 65..70 THEN c - 55
             ELSE c - 87

\* Buffer.from(s, 'hex'): pairs of hex digits, stopping at the first pair that
\* is not hexadecimal; a trailing single character is dropped
RECURSIVE BufferFromHex(_)
BufferFromHex(s) ==
    IF Len(s) < 2 THEN <<>>
    ELSE IF ~(IsHexChar(s[1]) /\ IsHexChar(s[2])) THEN <<>>
    ELSE <<16 * HexVal(s[1]) + HexVal(s[2])>> \o BufferFromHex(SubSeq(s, 3, Len(s)))

\* Buffer.from(s, 'utf8'): one byte per ASCII character, its code
RECURSIVE BufferFromUtf8(_)
BufferFromUtf8(s) ==
    IF s = <<>> THEN <<>> ELSE <<Head(s) % 256>> \o BufferFromUtf8(Tail(s))

\* the JavaScript string comparison a < b: by code unit, a proper prefix first
RECURSIVE StrLess(_, _)
StrLess(a, b) ==
    IF Len(b) = 0 THEN FALSE
    ELSE IF Len(a) = 0 THEN TRUE
    ELSE IF a[1] # b[1] THEN a[1] < b[1]
    ELSE StrLess(Tail(a), Tail(b))

RECURSIVE Pow(_, _)
Pow(b, n) == IF n = 0 THEN 1 ELSE b * Pow(b, n - 1)

DigestModulus == Pow(256, DigestBytes)

HexDigit(n) == IF n < 10 THEN 48 + n ELSE 87 + n

\* n written as `digits` lowercase hexadecimal characters
RECURSIVE ToHex(_, _)
ToHex(n, digits) ==
    IF digits = 0 THEN <<>>
    ELSE ToHex(n \div 16, digits - 1) \o <<HexDigit(n % 16)>>

RECURSIVE DigestFold(_, _)
DigestFold(h, bytes) ==
    IF bytes = <<>> THEN h
    ELSE DigestFold((h * 33 + Head(bytes) + 1) % DigestModulus, Tail(bytes))

\* createHash('sha256').update(bytes).digest('hex'): a deterministic digest of
\* the byte sequence, in lowercase hex of fixed width (2 * DigestBytes here)
SHA256(bytes) == ToHex(DigestFold(5, bytes), 2 * DigestBytes)

-----------------------------------------------------------------------------
(* Outcomes of a call *)

\* a call that returned v
Return(v) == [threw |-> FALSE, value |-> v, error |-> "", message |-> ""]

\* throw new BasestampError(message); messages are kept up to their first
\* interpolated value
ThrowBasestampError(m) ==
    [threw |-> TRUE, value |-> FALSE, error |-> "BasestampError", message |-> m]

\* the TypeError the runtime throws when a property of undefined or null is read
ThrowTypeError ==
    [threw |-> TRUE, value |-> FALSE, error |-> "TypeError",
     message |-> "Cannot read properties of undefined"]

-----------------------------------------------------------------------------
(* src/src/merkle.ts *)

\* a proof object is a record; a field the object does not carry is not in its
\* domain (siblings, directions) or is Undefined (leaf_hash, root_hash)
HasArrays(proof) == {"siblings", "directions"} \subseteq DOMAIN proof

\* a mutant: the operands are always concatenated in the order given
hashPair_positional(left, right) ==
    SHA256(BufferFromHex(left) \o BufferFromHex(right))

hashPair(left, right) ==
    LET leftBytes == BufferFromHex(left)
        rightBytes == BufferFromHex(right)
        combined ==
            IF Len(leftBytes) = Len(rightBytes)
            THEN IF StrLess(left, right)
                 THEN leftBytes \o rightBytes
                 ELSE rightBytes \o leftBytes
            ELSE leftBytes \o rightBytes
    IN SHA256(combined)

\* a mutant: the loop hashes the two values in the order the direction bit
\* gives, without ordering them by value
RECURSIVE verifyLoop_positional(_, _, _)
verifyLoop_positional(proof, i, currentHash) ==
    IF i < Len(proof.siblings)
    THEN LET sibling == proof.siblings[i + 1]
             direction == proof.directions[i + 1]
         IN verifyLoop_positional(proof, i + 1,
                                  IF direction
                                  THEN hashPair_positional(currentHash, sibling)
                                  ELSE hashPair_positional(sibling, currentHash))
    ELSE currentHash

\* the body of the for loop of verifyMerkleProof, from index i on
RECURSIVE verifyLoop(_, _, _)
verifyLoop(proof, i, currentHash) ==
    IF i < Len(proof.siblings)
    THEN LET sibling == proof.siblings[i + 1]
             direction == proof.directions[i + 1]
         IN verifyLoop(proof, i + 1,
                       IF direction
                       THEN hashPair(currentHash, sibling)
                       ELSE hashPair(sibling, currentHash))
    ELSE currentHash

\* a mutant: the final comparison is made on the decoded bytes
verifyMerkleProof_bytes(p) ==
    IF p = None THEN Return(FALSE)
    ELSE LET proof == p[1] IN
         IF ~Truthy(proof.leaf_hash) \/ ~Truthy(proof.root_hash) THEN Return(FALSE)
         ELSE IF ~HasArrays(proof) THEN ThrowTypeError
         ELSE IF Len(proof.siblings) # Len(proof.directions) THEN Return(FALSE)
         ELSE Return(BufferFromHex(verifyLoop(proof, 0, proof.leaf_hash))
                       = BufferFromHex(proof.root_hash))

\* a mutant: a proof without siblings is accepted without comparing the root
verifyMerkleProof_norootcheck(p) ==
    IF p = None THEN Return(FALSE)
    ELSE LET proof == p[1] IN
         IF ~Truthy(proof.leaf_hash) \/ ~Truthy(proof.root_hash) THEN Return(FALSE)
         ELSE IF ~HasArrays(proof) THEN ThrowTypeError
         ELSE IF Len(proof.siblings) # Len(proof.directions) THEN Return(FALSE)
         ELSE IF Len(proof.siblings) = 0 THEN Return(TRUE)
         ELSE Return(verifyLoop(proof, 0, proof.leaf_hash) = proof.root_hash)

\* a mutant: the loop starts at the second sibling
verifyMerkleProof_skipsFirst(p) ==
    IF p = None THEN Return(FALSE)
    ELSE LET proof == p[1] IN
         IF ~Truthy(proof.leaf_hash) \/ ~Truthy(proof.root_hash) THEN Return(FALSE)
         ELSE IF ~HasArrays(proof) THEN ThrowTypeError
         ELSE IF Len(proof.siblings) # Len(proof.directions) THEN Return(FALSE)
         ELSE Return(verifyLoop(proof, 1, proof.leaf_hash) = proof.root_hash)

\* a mutant: the lengths of siblings and directions are not compared; a
\* direction bit that is not there reads as undefined, which is falsy
verifyMerkleProof_nolengthcheck(p) ==
    IF p = None THEN Return(FALSE)
    ELSE LET proof == p[1] IN
         IF ~Truthy(proof.leaf_hash) \/ ~Truthy(proof.root_hash) THEN Return(FALSE)
         ELSE IF ~HasArrays(proof) THEN ThrowTypeError
         ELSE LET padded ==
                      [proof EXCEPT !.directions =
                          [i \in 1..Len(proof.siblings) |->
                              IF i <= Len(proof.directions) THEN proof.directions[i]
                              ELSE FALSE]]
              IN Return(verifyLoop(padded, 0, proof.leaf_hash) = proof.root_hash)

\* verifyMerkleProof(proof): p is the optional proof (None for null/undefined).
\* proof.siblings.length and proof.directions.length are read without a check
\* that the arrays are there: reading length of undefined throws a TypeError
verifyMerkleProof(p) ==
    IF p = None THEN Return(FALSE)
    ELSE LET proof == p[1] IN
         IF ~Truthy(proof.leaf_hash) \/ ~Truthy(proof.root_hash) THEN Return(FALSE)
         ELSE IF ~HasArrays(proof) THEN ThrowTypeError
         ELSE IF Len(proof.siblings) # Len(proof.directions) THEN Return(FALSE)
         ELSE Return(verifyLoop(proof, 0, proof.leaf_hash) = proof.root_hash)

\* a mutant: the text is hex-decoded before it is hashed
calculateSHA256_hex(data) == SHA256(BufferFromHex(data))

calculateSHA256(data) == SHA256(BufferFromUtf8(data))

-----------------------------------------------------------------------------
(* src/src/types.ts *)

\* new Stamp(data, verifier, hasher): the fields verification reads
NewStamp(data) ==
    [stamp_id |-> data.stamp_id,
     hash |-> data.hash,
     original_hash |-> IF Truthy(data.original_hash) THEN data.original_hash ELSE data.hash,
     nonce |-> IF Truthy(data.nonce) THEN data.nonce ELSE EmptyStr,
     merkle_proof |-> data.merkle_proof]

\* a mutant: the leaf hash is checked before the candidate hash
StampVerify_leafFirst(s, original_hash) ==
    IF s.merkle_proof = None
    THEN ThrowBasestampError("Merkle proof not available for verification")
    ELSE LET leafError ==
                 IF Truthy(s.nonce)
                 THEN LET expectedLeafHash == calculateSHA256(s.nonce \o s.original_hash)
                      IN IF expectedLeafHash # s.merkle_proof[1].leaf_hash
                         THEN Some("Leaf hash verification failed")
                         ELSE None
                 ELSE IF s.original_hash # s.merkle_proof[1].leaf_hash
                      THEN Some("Legacy verification failed")
                      ELSE None
         IN
         IF leafError # None
         THEN ThrowBasestampError(leafError[1])
         ELSE IF original_hash # s.original_hash
         THEN ThrowBasestampError("Hash mismatch")
         ELSE LET isValidProof == verifyMerkleProof(s.merkle_proof) IN
              IF isValidProof.threw
              THEN isValidProof
              ELSE IF ~isValidProof.value
              THEN IF ~HasArrays(s.merkle_proof[1])
                   THEN ThrowTypeError
                   ELSE ThrowBasestampError("Merkle proof verification failed")
              ELSE Return(TRUE)

\* a mutant: an invalid proof structure is reported by returning false
StampVerify_returnsFalse(s, original_hash) ==
    IF s.merkle_proof = None
    THEN ThrowBasestampError("Merkle proof not available for verification")
    ELSE IF original_hash # s.original_hash
    THEN ThrowBasestampError("Hash mismatch")
    ELSE LET leafError ==
                 IF Truthy(s.nonce)
                 THEN LET expectedLeafHash == calculateSHA256(s.nonce \o s.original_hash)
                      IN IF expectedLeafHash # s.merkle_proof[1].leaf_hash
                         THEN Some("Leaf hash verification failed")
                         ELSE None
                 ELSE IF s.original_hash # s.merkle_proof[1].leaf_hash
                      THEN Some("Legacy verification failed")
                      ELSE None
         IN
         IF leafError # None
         THEN ThrowBasestampError(leafError[1])
         ELSE LET isValidProof == verifyMerkleProof(s.merkle_proof) IN
              IF isValidProof.threw
              THEN isValidProof
              ELSE IF ~isValidProof.value
              THEN Return(FALSE)
              ELSE Return(TRUE)

\* a mutant: legacy mode does not compare the leaf hash
StampVerify_legacyUnchecked(s, original_hash) ==
    IF s.merkle_proof = None
    THEN ThrowBasestampError("Merkle proof not available for verification")
    ELSE IF original_hash # s.original_hash
    THEN ThrowBasestampError("Hash mismatch")
    ELSE LET leafError ==
                 IF Truthy(s.nonce)
                 THEN LET expectedLeafHash == calculateSHA256(s.nonce \o s.original_hash)
                      IN IF expectedLeafHash # s.merkle_proof[1].leaf_hash
                         THEN Some("Leaf hash verification failed")
                         ELSE None
                 ELSE None
         IN
         IF leafError # None
         THEN ThrowBasestampError(leafError[1])
         ELSE LET isValidProof == verifyMerkleProof(s.merkle_proof) IN
              IF isValidProof.threw
              THEN isValidProof
              ELSE IF ~isValidProof.value
              THEN IF ~HasArrays(s.merkle_proof[1])
                   THEN ThrowTypeError
                   ELSE ThrowBasestampError("Merkle proof verification failed")
              ELSE Return(TRUE)

\* Stamp.verify(original_hash) on the Stamp s; the message of the last throw
\* joins proof.siblings and proof.directions, a TypeError when one is missing
StampVerify(s, original_hash) ==
    IF s.merkle_proof = None
    THEN ThrowBasestampError("Merkle proof not available for verification")
    ELSE IF original_hash # s.original_hash
    THEN ThrowBasestampError("Hash mismatch")
    ELSE LET leafError ==
                 IF Truthy(s.nonce)
                 THEN LET expectedLeafHash == calculateSHA256(s.nonce \o s.original_hash)
                      IN IF expectedLeafHash # s.merkle_proof[1].leaf_hash
                         THEN Some("Leaf hash verification failed")
                         ELSE None
                 ELSE IF s.original_hash # s.merkle_proof[1].leaf_hash
                      THEN Some("Legacy verification failed")
                      ELSE None
         IN
         IF leafError # None
         THEN ThrowBasestampError(leafError[1])
         ELSE LET isValidProof == verifyMerkleProof(s.merkle_proof) IN
              IF isValidProof.threw
              THEN isValidProof
              ELSE IF ~isValidProof.value
              THEN IF ~HasArrays(s.merkle_proof[1])
                   THEN ThrowTypeError
                   ELSE ThrowBasestampError("Merkle proof verification failed")
              ELSE Return(TRUE)

\* a mutant: the MerkleProof takes the hash field of the Stamp as original_hash
GetMerkleProof_usesHash(s) ==
    IF s.merkle_proof = None
    THEN ThrowBasestampError("Merkle proof not available")
    ELSE LET mp == s.merkle_proof[1] IN
         Return([f \in DOMAIN mp \cup {"nonce", "original_hash"} |->
                    IF f = "nonce" THEN s.nonce
                    ELSE IF f = "original_hash" THEN s.hash
                    ELSE mp[f]])

\* Stamp.getMerkleProof(): a new MerkleProof made of the fields of the proof
\* (spread) with the nonce and original_hash of the Stamp
GetMerkleProof(s) ==
    IF s.merkle_proof = None
    THEN ThrowBasestampError("Merkle proof not available")
    ELSE LET mp == s.merkle_proof[1] IN
         Return([f \in DOMAIN mp \cup {"nonce", "original_hash"} |->
                    IF f = "nonce" THEN s.nonce
                    ELSE IF f = "original_hash" THEN s.original_hash
                    ELSE mp[f]])

\* a mutant: MerkleProof.verify derives the leaf from nonce + original_hash
\* whether there is a nonce or not
MerkleProofVerify_alwaysNonce(mp, hash_value) ==
    IF hash_value # mp.original_hash
    THEN ThrowBasestampError("Hash mismatch")
    ELSE LET expectedLeafHash == calculateSHA256(mp.nonce \o mp.original_hash) IN
         IF expectedLeafHash # mp.leaf_hash
         THEN ThrowBasestampError("Leaf hash verification failed")
         ELSE LET isValidProof == verifyMerkleProof(Some(mp)) IN
              IF isValidProof.threw
              THEN isValidProof
              ELSE IF ~isValidProof.value
              THEN IF ~HasArrays(mp)
                   THEN ThrowTypeError
                   ELSE ThrowBasestampError("Merkle proof verification failed")
              ELSE Return(TRUE)

\* MerkleProof.verify(hash_value) on the MerkleProof mp
MerkleProofVerify(mp, hash_value) ==
    IF hash_value # mp.original_hash
    THEN ThrowBasestampError("Hash mismatch")
    ELSE LET leafError ==
                 IF Truthy(mp.nonce)
                 THEN LET expectedLeafHash == calculateSHA256(mp.nonce \o mp.original_hash)
                      IN IF expectedLeafHash # mp.leaf_hash
                         THEN Some("Leaf hash verification failed")
                         ELSE None
                 ELSE IF mp.original_hash # mp.leaf_hash
                      THEN Some("Legacy verification failed")
                      ELSE None
         IN
         IF leafError # None
         THEN ThrowBasestampError(leafError[1])
         ELSE LET isValidProof == verifyMerkleProof(Some(mp)) IN
              IF isValidProof.threw
              THEN isValidProof
              ELSE IF ~isValidProof.value
              THEN IF ~HasArrays(mp)
                   THEN ThrowTypeError
                   ELSE ThrowBasestampError("Merkle proof verification failed")
              ELSE Return(TRUE)

-----------------------------------------------------------------------------
(* src/src/client.ts *)

\* StampOptions.timeout when the caller gives none, in seconds
DefaultTimeout == 30

\* a number of seconds is a fraction <<numerator, denominator>>; Math.ceil
Ceil(t) == -((-t[1]) \div t[2])

\* the transport: the requests it has been handed and not yet settled, and how
\* many it has been handed in all
NoRequests == [inflight |-> {}, sent |-> 0]

\* a mutant: a request for a path that is already in flight is not sent again
sendRequest_coalesced(n, c, path) ==
    IF \E r \in n.inflight : r.path = path
    THEN n
    ELSE [inflight |-> n.inflight \cup {[call |-> c, path |-> path]}, sent |-> n.sent + 1]

\* fetch(url, init) in makeRequest: every makeRequest hands the transport a
\* request of its own; c is the call it is made for
sendRequest(n, c, path) ==
    [inflight |-> n.inflight \cup {[call |-> c, path |-> path]}, sent |-> n.sent + 1]

\* the promise fetch returned for call c settles
settleRequest(n, c) == [n EXCEPT !.inflight = {r \in @ : r.call # c}]

\* how the transport settles a request: fetch rejects with an error of a name,
\* or a response arrives, ok or not, whose body decodes or not
Rejected(name) ==
    [kind |-> "rejected", name |-> name, ok |-> FALSE, jsonValid |-> FALSE, data |-> None]

Responded(ok, jsonValid, data) ==
    [kind |-> "response", name |-> "", ok |-> ok, jsonValid |-> jsonValid, data |-> data]

\* makeRequest(method, path) once the transport has settled with ev:
\* fetch rejected (network error, or AbortError when the request timer fired),
\* a response that is not ok, a body response.json() cannot decode, or the
\* decoded body (None for the JSON value null)
makeRequest(ev) ==
    IF ev.kind = "rejected"
    THEN IF ev.name = "AbortError"
         THEN ThrowBasestampError("Request timeout")
         ELSE ThrowBasestampError("Request failed")
    ELSE IF ~ev.ok
    THEN ThrowBasestampError("Server returned error")
    ELSE IF ~ev.jsonValid
    THEN ThrowBasestampError("Request failed")
    ELSE Return(ev.data)

\* ClientOptions.timeout when the caller gives none, in milliseconds
DefaultRequestTimeout == 30000

\* new BasestampClient(options): this.timeout = options.timeout || 30000
NewClient(options) ==
    [timeout |-> IF options.timeout = None \/ options.timeout[1] = 0
                 THEN DefaultRequestTimeout
                 ELSE options.timeout[1]]

\* makeRequest(method, path) up to `await fetch(url, init)`: the abort timer is
\* started with this.timeout and the transport is handed the request
makeRequestEnter(client, method, path) ==
    [method |-> method, path |-> path, pc |-> "fetch",
     timer |-> [state |-> "armed", ms |-> client.timeout],
     elapsed |-> FALSE, pendingAt |-> "", outcome |-> None]

\* the catch clause of makeRequest: clearTimeout(timeoutId), then the throw
makeRequestCaught(r, ev) ==
    [r EXCEPT !.pc = "done",
              !.timer.state = IF @ = "armed" THEN "cleared" ELSE @,
              !.outcome = Some(makeRequest(ev))]

\* fetch resolved with a response: clearTimeout(timeoutId), the throw for a
\* response that is not ok, otherwise `await response.json()`
makeRequestResponded(r, ok) ==
    IF ~ok
    THEN makeRequestCaught([r EXCEPT !.timer.state = "cleared"], Responded(FALSE, FALSE, None))
    ELSE [r EXCEPT !.pc = "json", !.timer.state = "cleared"]

\* response.json() settled: the decoded body is returned, a rejection is caught
makeRequestDecoded(r, jsonValid, data) ==
    IF ~jsonValid
    THEN makeRequestCaught(r, Responded(TRUE, FALSE, None))
    ELSE [r EXCEPT !.pc = "done", !.outcome = Some(makeRequest(Responded(TRUE, TRUE, data)))]

\* this.timeout milliseconds have passed since makeRequest was entered: the
\* timer, unless it was cleared, calls controller.abort() and the pending
\* fetch rejects with an AbortError
makeRequestTimedOut(r) ==
    LET late == [r EXCEPT !.elapsed = TRUE, !.pendingAt = r.pc] IN
    IF r.timer.state = "armed"
    THEN makeRequestCaught([late EXCEPT !.timer.state = "fired"], Rejected("AbortError"))
    ELSE late

\* a call on the client that has not been made: the method called, the locals
\* of getStamp, and what the call has done so far (requests issued, delays
\* started and the length of the last, calls of stamp.verify, the responses
\* received, the outcome)
IdleCall ==
    [pc |-> "idle", method |-> "", stampId |-> "", hashValue |-> None,
     wait |-> FALSE, timeout |-> <<0, 1>>,
     attempts |-> 0, maxAttempts |-> 0,
     options |-> [wait |-> None, timeout |-> None],
     fetches |-> 0, sleeps |-> 0, delay |-> 0, verifies |-> 0, responses |-> <<>>,
     outcome |-> None, proofVerify |-> None]

\* the promise of the call settles with outcome r
Settle(call, r) == [call EXCEPT !.pc = "done", !.outcome = Some(r)]

\* a mutant: the first request is issued before attempts is compared
getStampLoop_fetchesFirst(call) ==
    IF call.attempts = 0 \/ call.attempts < call.maxAttempts
    THEN [call EXCEPT !.pc = "fetching", !.fetches = @ + 1]
    ELSE Settle(call, ThrowBasestampError("Timeout waiting for stamp"))

\* the head of the while loop: another request is issued while attempts remain,
\* otherwise the statement after the loop throws
getStampLoop(call) ==
    IF call.attempts < call.maxAttempts
    THEN [call EXCEPT !.pc = "fetching", !.fetches = @ + 1]
    ELSE Settle(call, ThrowBasestampError("Timeout waiting for stamp"))

\* getStamp(stampId, options) up to its first await
getStampEnter(call, stampId, options) ==
    LET wait == IF options.wait = None THEN FALSE ELSE options.wait[1]
        timeout == IF options.timeout = None THEN <<DefaultTimeout, 1>> ELSE options.timeout[1]
    IN getStampLoop([call EXCEPT !.stampId = stampId,
                                 !.wait = wait,
                                 !.timeout = timeout,
                                 !.attempts = 0,
                                 !.maxAttempts = IF wait THEN Ceil(timeout) ELSE 1])

\* the delay between two attempts of getStamp, in milliseconds
delayMs == 1000

\* a mutant: the delay is the time left of the timeout, not one second
suspend_remaining(call) ==
    [call EXCEPT !.pc = "sleeping", !.sleeps = @ + 1,
                 !.delay = delayMs * (call.maxAttempts - call.attempts - 1)]

\* await new Promise(resolve => setTimeout(resolve, delayMs))
suspend(call) ==
    [call EXCEPT !.pc = "sleeping", !.sleeps = @ + 1, !.delay = delayMs]

\* a mutant: a record without proof always leads to the delay, never to the throw
getStampFetched_noThrow(call, ev) ==
    LET r == makeRequest(ev) IN
    IF r.threw
    THEN Settle(call, r)
    ELSE IF r.value = None
    THEN Settle(call, ThrowBasestampError("Failed to get stamp"))
    ELSE LET stampData == r.value[1] IN
         IF stampData.merkle_proof = None
         THEN suspend(call)
         ELSE Settle(call, Return(NewStamp(stampData)))

\* a mutant: the delay and retry follow every attempt but the last, proof or not
getStampFetched_pollsOn(call, ev) ==
    LET r == makeRequest(ev) IN
    IF r.threw
    THEN Settle(call, r)
    ELSE IF r.value = None
    THEN Settle(call, ThrowBasestampError("Failed to get stamp"))
    ELSE LET stampData == r.value[1] IN
         IF stampData.merkle_proof = None
         THEN IF ~call.wait \/ call.attempts = call.maxAttempts - 1
              THEN Settle(call, ThrowBasestampError("Merkle proof not yet available"))
              ELSE suspend(call)
         ELSE IF call.wait /\ call.attempts < call.maxAttempts - 1
              THEN suspend(call)
              ELSE Settle(call, Return(NewStamp(stampData)))

\* a mutant: a failed request is retried while attempts remain
getStampFetched_retries(call, ev) ==
    LET r == makeRequest(ev) IN
    IF r.threw
    THEN IF call.wait /\ call.attempts < call.maxAttempts - 1
         THEN suspend(call)
         ELSE Settle(call, r)
    ELSE IF r.value = None
    THEN Settle(call, ThrowBasestampError("Failed to get stamp"))
    ELSE LET stampData == r.value[1] IN
         IF stampData.merkle_proof = None
         THEN IF ~call.wait \/ call.attempts = call.maxAttempts - 1
              THEN Settle(call, ThrowBasestampError("Merkle proof not yet available"))
              ELSE suspend(call)
         ELSE Settle(call, Return(NewStamp(stampData)))

\* a mutant: on the last attempt the record is returned as it is, proof or not
getStampFetched_returnsPending(call, ev) ==
    LET r == makeRequest(ev) IN
    IF r.threw
    THEN Settle(call, r)
    ELSE IF r.value = None
    THEN Settle(call, ThrowBasestampError("Failed to get stamp"))
    ELSE LET stampData == r.value[1] IN
         IF stampData.merkle_proof = None /\ call.wait /\ call.attempts < call.maxAttempts - 1
         THEN suspend(call)
         ELSE Settle(call, Return(NewStamp(stampData)))

\* getStamp from the settling of its request to its next await or its end
getStampFetched(call, ev) ==
    LET r == makeRequest(ev) IN
    IF r.threw
    THEN Settle(call, r)
    ELSE IF r.value = None
    THEN Settle(call, ThrowBasestampError("Failed to get stamp"))
    ELSE LET stampData == r.value[1] IN
         IF stampData.merkle_proof = None
         THEN IF ~call.wait \/ call.attempts = call.maxAttempts - 1
              THEN Settle(call, ThrowBasestampError("Merkle proof not yet available"))
              ELSE suspend(call)
         ELSE Settle(call, Return(NewStamp(stampData)))

\* a mutant: the attempt is not counted when the delay ends
getStampResumed_notCounted(call) == getStampLoop(call)

\* getStamp from the end of its one-second delay: attempts++; continue
getStampResumed(call) == getStampLoop([call EXCEPT !.attempts = @ + 1])

\* a mutant: verifyStamp polls, asking getStamp to wait for the proof
verifyStampEnter_waits(call, stampId, hashValue) ==
    getStampEnter([call EXCEPT !.method = "verifyStamp", !.hashValue = hashValue],
                  stampId, [wait |-> Some(TRUE), timeout |-> Some(<<2, 1>>)])

\* verifyStamp(stampId, hashValue) up to its await: getStamp(stampId)
verifyStampEnter(call, stampId, hashValue) ==
    getStampEnter([call EXCEPT !.method = "verifyStamp", !.hashValue = hashValue],
                  stampId, [wait |-> None, timeout |-> None])

\* verifyStamp once getStamp has settled with r: the candidate is hashValue
\* unless it is falsy; errors other than BasestampError are wrapped
verifyStampSettled(call, r) ==
    IF r.threw
    THEN Settle(call, IF r.error = "BasestampError" THEN r
                      ELSE ThrowBasestampError("Failed to verify stamp"))
    ELSE LET s == r.value
             hashToVerify == IF call.hashValue # None /\ Truthy(call.hashValue[1])
                             THEN call.hashValue[1]
                             ELSE s.original_hash
             v == StampVerify(s, hashToVerify)
         IN Settle([call EXCEPT !.verifies = @ + 1],
                   IF v.threw /\ v.error # "BasestampError"
                   THEN ThrowBasestampError("Failed to verify stamp")
                   ELSE v)

\* get_merkle_proof(stampId, wait, timeout) up to its await
get_merkle_proofEnter(call, stampId, wait, timeout) ==
    getStampEnter([call EXCEPT !.method = "get_merkle_proof"],
                  stampId, [wait |-> Some(wait), timeout |-> Some(timeout)])

\* get_merkle_proof once getStamp has settled with r
get_merkle_proofSettled(call, r) ==
    IF r.threw THEN Settle(call, r) ELSE Settle(call, GetMerkleProof(r.value))

\* submitSHA256(hash) up to its await: makeRequest('POST', '/stamp', {hash})
submitSHA256Enter(call) ==
    [call EXCEPT !.method = "submitSHA256", !.pc = "fetching", !.fetches = @ + 1]

\* submitSHA256 once its request has settled with ev; 'stamp_id' in response
\* throws a TypeError when the decoded body is null
submitSHA256Settled(call, ev) ==
    LET r == makeRequest(ev) IN
    IF r.threw
    THEN Settle(call, r)
    ELSE IF r.value = None
    THEN Settle(call, ThrowTypeError)
    ELSE LET response == r.value[1] IN
         IF "stamp_id" \in DOMAIN response
         THEN Settle(call, Return(response.stamp_id))
         ELSE Settle(call, Return(response.hash))

\* info(), health(), batchStats() up to their await: makeRequest('GET', path)
infoEnter(call, method) ==
    [call EXCEPT !.method = method, !.pc = "fetching", !.fetches = @ + 1]

\* info(), health(), batchStats() once the request has settled with ev: the
\* decoded body is returned as it is
infoSettled(call, ev) == Settle(call, makeRequest(ev))

\* the caller of a method that awaits getStamp resumes when getStamp has settled
Resolve(call) ==
    IF call.pc # "done" THEN call
    ELSE IF call.method = "verifyStamp" THEN verifyStampSettled(call, call.outcome[1])
    ELSE IF call.method = "get_merkle_proof"
    THEN get_merkle_proofSettled(call, call.outcome[1])
    ELSE call

-----------------------------------------------------------------------------
(* Inputs: strings the checks draw from *)

\* "a1", "A1" (the same byte as "a1"), "b2", "B2", "c3d4" (two bytes),
\* "zz" (no hex digit), "ff"
StrA1 == <<97, 49>>

StrUpperA1 == <<65, 49>>

StrB2 == <<98, 50>>

StrUpperB2 == <<66, 50>>

StrC3D4 == <<99, 51, 100, 52>>

StrZZ == <<122, 122>>

StrFF == <<102, 102>>

\* "ab": a nonce whose text is also valid hex
StrAB == <<97, 98>>

\* s with its lowercase hex letters in uppercase: another string, the same bytes
RECURSIVE ToUpper(_)
ToUpper(s) ==
    IF s = <<>> THEN <<>>
    ELSE <<IF Head(s) \in 97..102 THEN Head(s) - 32 ELSE Head(s)>> \o ToUpper(Tail(s))

\* all sequences over S of length at most n
RECURSIVE SeqsUpTo(_, _)
SeqsUpTo(S, n) ==
    IF n = 0 THEN {<<>>}
    ELSE LET shorter == SeqsUpTo(S, n - 1)
         IN shorter \cup {Append(q, x) : q \in {r \in shorter : Len(r) = n - 1}, x \in S}

\* the root obtained from leaf by combining it, in order, with the siblings by
\* hashPair, the sibling on the side its direction bit names
RECURSIVE CombinePath(_, _, _)
CombinePath(current, siblings, directions) ==
    IF siblings = <<>> THEN current
    ELSE CombinePath(IF Head(directions)
                     THEN hashPair(current, Head(siblings))
                     ELSE hashPair(Head(siblings), current),
                     Tail(siblings), Tail(directions))

RECURSIVE AllDirections(_, _)
AllDirections(n, b) == IF n = 0 THEN <<>> ELSE <<b>> \o AllDirections(n - 1, b)

LeafChoices == {StrA1, StrUpperA1, StrC3D4, StrZZ, EmptyStr, Undefined}

SiblingChoices == {StrB2, StrUpperB2, StrC3D4}

\* root hashes tried for a leaf and a sibling path: the roots of the path, the
\* same in uppercase, the leaf itself, '', a missing field and an unrelated hash
RootChoices(leaf, siblings) ==
    LET n == Len(siblings)
        r1 == CombinePath(leaf, siblings, AllDirections(n, TRUE))
        r2 == CombinePath(leaf, siblings, AllDirections(n, FALSE))
    IN {r1, r2, ToUpper(r1), leaf, EmptyStr, Undefined, StrFF}

MerkleInputs ==
    UNION {{[leaf_hash |-> l, leaf_index |-> 0, siblings |-> s, directions |-> d,
             root_hash |-> r] : r \in RootChoices(l, s), d \in SeqsUpTo(BOOLEAN, MaxSiblings)} :
           l \in LeafChoices, s \in SeqsUpTo(SiblingChoices, MaxSiblings)}

\* proof objects that lack siblings, directions or both, as a decoded JSON body
\* can be
MalformedInputs ==
    UNION {{[leaf_hash |-> l, leaf_index |-> 0, root_hash |-> r],
            [leaf_hash |-> l, leaf_index |-> 0, root_hash |-> r, siblings |-> <<StrB2>>],
            [leaf_hash |-> l, leaf_index |-> 0, root_hash |-> r, directions |-> <<>>]} :
           l \in LeafChoices, r \in {StrA1, StrFF, EmptyStr, Undefined}}

-----------------------------------------------------------------------------
(* SpecMerkle: verifyMerkleProof applied to drawn proofs *)

MerkleIdle ==
    /\ mproof = None
    /\ mresult = None
    /\ maccepted = {}
    /\ mflip = None

StampIdle ==
    /\ sdata = None
    /\ stamp = None
    /\ scandidate = None
    /\ sresult = None

CallIds == {"A", "B"}

ClientIdle ==
    /\ calls = [c \in CallIds |-> IdleCall]
    /\ net = NoRequests

PairIdle == pair = None

TreeIdle == tree = None

AliasIdle == heap = None

RequestIdle == req = None

InitMerkle ==
    /\ mproof \in {None} \cup {Some(p) : p \in MerkleInputs \cup MalformedInputs}
    /\ mresult = None
    /\ maccepted = {}
    /\ mflip = None
    /\ PairIdle
    /\ TreeIdle
    /\ StampIdle
    /\ AliasIdle
    /\ RequestIdle
    /\ ClientIdle

\* a caller evaluates verifyMerkleProof(mproof)
CallVerifyMerkleProof ==
    /\ mresult = None
    /\ LET r == verifyMerkleProof(mproof)
       IN /\ mresult' = Some(r)
          /\ maccepted' = IF r = Return(TRUE)
                          THEN maccepted \cup {mproof[1].root_hash}
                          ELSE maccepted
    /\ UNCHANGED <<mproof, mflip, notMerkle>>

\* the caller replaces root_hash of the proof by another string, leaf and path kept
ReplaceRoot ==
    /\ mresult # None
    /\ mproof # None
    /\ HasArrays(mproof[1])
    /\ \E r \in RootChoices(mproof[1].leaf_hash, mproof[1].siblings) :
          /\ r # mproof[1].root_hash
          /\ mproof' = Some([mproof[1] EXCEPT !.root_hash = r])
    /\ mresult' = None
    /\ mflip' = None
    /\ UNCHANGED <<maccepted, notMerkle>>

\* the caller flips one direction bit of the proof, leaf, siblings and root kept
FlipDirection ==
    /\ mresult # None
    /\ mproof # None
    /\ HasArrays(mproof[1])
    /\ \E i \in 1..Len(mproof[1].directions) :
          /\ mproof' = Some([mproof[1] EXCEPT !.directions[i] = ~@])
          /\ mflip' = Some([index |-> i, before |-> mresult[1]])
    /\ mresult' = None
    /\ maccepted' = {}
    /\ UNCHANGED notMerkle

NextMerkle == CallVerifyMerkleProof \/ ReplaceRoot \/ FlipDirection

SpecMerkle == InitMerkle /\ [][NextMerkle]_vars

-----------------------------------------------------------------------------
(* Claims about verifyMerkleProof, checked under SpecMerkle *)

\* the call has returned for a proof object (not null)
MerkleReturned == mresult # None /\ mproof # None

\* C9: for a proof with non-empty leaf_hash and root_hash and siblings and
\* directions of equal length, verifyMerkleProof returns true if and only if
\* root_hash equals the value obtained from leaf_hash by combining it, in
\* order, with the siblings by hashPair; and once a root_hash has been accepted
\* for a leaf and a path, every other root_hash put in its place is rejected.
C9_RootDecides ==
    (/\ MerkleReturned
     /\ Truthy(mproof[1].leaf_hash)
     /\ Truthy(mproof[1].root_hash)
     /\ HasArrays(mproof[1])
     /\ Len(mproof[1].siblings) = Len(mproof[1].directions))
    => /\ mresult[1] = Return(mproof[1].root_hash =
                                 CombinePath(mproof[1].leaf_hash, mproof[1].siblings,
                                             mproof[1].directions))
       /\ Cardinality(maccepted) <= 1

\* C9 witness: a root was accepted for a path with siblings, then replaced by
\* another non-empty string, and the proof with the replaced root was rejected
C9_Witness ==
    /\ MerkleReturned
    /\ HasArrays(mproof[1])
    /\ Len(mproof[1].siblings) > 0
    /\ Len(mproof[1].siblings) = Len(mproof[1].directions)
    /\ Truthy(mproof[1].root_hash)
    /\ maccepted # {}
    /\ mproof[1].root_hash \notin maccepted
    /\ mresult[1] = Return(FALSE)

\* a proof object with zero siblings and zero directions
ZeroSiblings ==
    /\ MerkleReturned
    /\ HasArrays(mproof[1])
    /\ mproof[1].siblings = <<>>
    /\ mproof[1].directions = <<>>

\* C10 as claimed: for any proof with zero siblings and zero directions,
\* verifyMerkleProof succeeds if and only if leaf_hash = root_hash.
C10_Original ==
    ZeroSiblings => (mresult[1] = Return(mproof[1].leaf_hash = mproof[1].root_hash))

\* C10 amended: for any proof with zero siblings and zero directions,
\* verifyMerkleProof succeeds if and only if leaf_hash = root_hash and
\* leaf_hash is not empty (nor missing).
C10_ZeroSiblings ==
    ZeroSiblings =>
        (mresult[1] = Return(/\ mproof[1].leaf_hash = mproof[1].root_hash
                             /\ Truthy(mproof[1].leaf_hash)))

\* C10 witness: a proof without siblings whose non-empty leaf is its root was accepted
C10_Witness ==
    /\ ZeroSiblings
    /\ Truthy(mproof[1].leaf_hash)
    /\ mproof[1].leaf_hash = mproof[1].root_hash
    /\ mresult[1] = Return(TRUE)

\* a direction bit was flipped and the flipped proof has been verified
Flipped == MerkleReturned /\ mflip # None

\* C12 as claimed: flipping any single directions[i], leaf_hash, siblings and
\* root_hash unchanged, does not change the result of verifyMerkleProof.
C12_Original == Flipped => mresult[1] = mflip[1].before

\* the loop pairs a value with siblings[i], i the index of the flipped bit
PairsAt(i) == i <= Len(mproof[1].siblings) /\ i <= Len(mproof[1].directions)

\* the value the loop holds when it reaches siblings[i]
CurrentAt(i) ==
    CombinePath(mproof[1].leaf_hash, SubSeq(mproof[1].siblings, 1, i - 1),
                SubSeq(mproof[1].directions, 1, i - 1))

\* the two values paired at siblings[i] decode to the same number of bytes
AlignedAt(i) ==
    PairsAt(i) =>
        Len(BufferFromHex(CurrentAt(i))) = Len(BufferFromHex(mproof[1].siblings[i]))

\* C12 amended: flipping directions[i] does not change the result of
\* verifyMerkleProof when the value combined with siblings[i] and siblings[i]
\* decode to the same number of bytes, as hashes of one width do.
C12_FlipDirection ==
    (Flipped /\ AlignedAt(mflip[1].index)) => mresult[1] = mflip[1].before

\* C12 witness: a proof was accepted, the direction of a sibling whose byte
\* differs from the value it is paired with was flipped, and the proof was
\* accepted again
C12_Witness ==
    /\ Flipped
    /\ PairsAt(mflip[1].index)
    /\ AlignedAt(mflip[1].index)
    /\ BufferFromHex(CurrentAt(mflip[1].index))
         # BufferFromHex(mproof[1].siblings[mflip[1].index])
    /\ mflip[1].before = Return(TRUE)
    /\ mresult[1] = Return(TRUE)

\* C13: verifyMerkleProof returns a boolean for every input and never throws;
\* an absent proof, an empty or missing leaf_hash or root_hash, and siblings
\* or directions that are missing or of different lengths all yield false.
C13_Total ==
    mresult # None =>
        /\ mresult[1] \in {Return(TRUE), Return(FALSE)}
        /\ (\/ mproof = None
            \/ ~Truthy(mproof[1].leaf_hash)
            \/ ~Truthy(mproof[1].root_hash)
            \/ ~HasArrays(mproof[1])
            \/ Len(mproof[1].siblings) # Len(mproof[1].directions))
           => mresult[1] = Return(FALSE)

\* siblings and directions are both there and of different lengths
LengthsDiffer ==
    /\ MerkleReturned
    /\ HasArrays(mproof[1])
    /\ Len(mproof[1].siblings) # Len(mproof[1].directions)

\* C14: if siblings and directions have different lengths, verifyMerkleProof
\* returns false whatever leaf_hash, root_hash, siblings and directions are.
C14_MismatchedLengths == LengthsDiffer => mresult[1] = Return(FALSE)

\* C14 witness: a proof with fewer directions than siblings whose root_hash is
\* the root its leaf and siblings lead to was rejected
C14_Witness ==
    /\ LengthsDiffer
    /\ Truthy(mproof[1].leaf_hash)
    /\ Len(mproof[1].directions) < Len(mproof[1].siblings)
    /\ mproof[1].root_hash =
          CombinePath(mproof[1].leaf_hash, mproof[1].siblings,
                      AllDirections(Len(mproof[1].siblings), FALSE))
    /\ mresult[1] = Return(FALSE)

-----------------------------------------------------------------------------
(* SpecHashPair: hashPair applied to two drawn operands, then to the same two
   operands in the other order *)

notPair == <<merkleVars, tree, stampVars, heap, clientVars, req>>

\* operands: one-byte and two-byte hex strings, the same byte in another case,
\* strings without a hex digit, '', and two digests
HashChoices ==
    {StrA1, StrUpperA1, StrB2, StrC3D4, StrZZ, EmptyStr, StrFF,
     calculateSHA256(StrA1), calculateSHA256(StrB2)}

InitHashPair ==
    /\ pair \in {Some([left |-> a, right |-> b, result |-> None, swapped |-> None]) :
                    a \in HashChoices, b \in HashChoices}
    /\ MerkleIdle
    /\ TreeIdle
    /\ StampIdle
    /\ AliasIdle
    /\ RequestIdle
    /\ ClientIdle

\* hashPair(left, right) is evaluated
CallHashPair ==
    /\ pair[1].result = None
    /\ pair' = Some([pair[1] EXCEPT !.result = Some(hashPair(pair[1].left, pair[1].right))])
    /\ UNCHANGED notPair

\* the caller exchanges the two operands, keeping what the first order gave
SwapOperands ==
    /\ pair[1].result # None
    /\ pair[1].swapped = None
    /\ pair' = Some([left |-> pair[1].right, right |-> pair[1].left,
                     result |-> None, swapped |-> pair[1].result])
    /\ UNCHANGED notPair

NextHashPair == CallHashPair \/ SwapOperands

SpecHashPair == InitHashPair /\ [][NextHashPair]_vars

-----------------------------------------------------------------------------
(* Claims about hashPair, checked under SpecHashPair *)

\* hashPair has been evaluated on the operands in both orders
BothOrders ==
    /\ pair # None
    /\ pair[1].result # None
    /\ pair[1].swapped # None

\* the two operands decode to the same number of bytes
SameByteLength ==
    Len(BufferFromHex(pair[1].left)) = Len(BufferFromHex(pair[1].right))

\* C11 as claimed: hashPair(a, b) and hashPair(b, a) are identical for all
\* hash values a and b.
C11_Original == BothOrders => pair[1].result = pair[1].swapped

\* C11 amended: hashPair(a, b) and hashPair(b, a) are identical for all a and
\* b that decode to the same number of bytes, as two hashes of one width do.
C11_Commutative == (BothOrders /\ SameByteLength) => pair[1].result = pair[1].swapped

\* C11 witness: two operands of one byte each, of different bytes, gave the
\* same digest in both orders
C11_Witness ==
    /\ BothOrders
    /\ SameByteLength
    /\ BufferFromHex(pair[1].left) # <<>>
    /\ BufferFromHex(pair[1].left) # BufferFromHex(pair[1].right)
    /\ pair[1].result = pair[1].swapped

-----------------------------------------------------------------------------
(* SpecTree: a tree is built bottom-up from drawn leaves with hashPair, the
   proof of one leaf is taken from it and handed to verifyMerkleProof *)

\* the level above `level`: neighbours are combined two by two with hashPair,
\* a node left without neighbour moves up as it is
RECURSIVE NextLevel(_)
NextLevel(level) ==
    IF Len(level) <= 1 THEN level
    ELSE <<hashPair(level[1], level[2])>> \o NextLevel(SubSeq(level, 3, Len(level)))

RECURSIVE TreeRoot(_)
TreeRoot(level) == IF Len(level) = 1 THEN level[1] ELSE TreeRoot(NextLevel(level))

\* the root-ward sibling path of the k-th node of `level`
RECURSIVE TreePath(_, _)
TreePath(level, k) ==
    IF Len(level) = 1 THEN <<>>
    ELSE LET sib == IF k % 2 = 1 THEN k + 1 ELSE k - 1
         IN (IF sib <= Len(level) THEN <<level[sib]>> ELSE <<>>)
              \o TreePath(NextLevel(level), (k + 1) \div 2)

\* sequences over S without repetition, of length at most n
RECURSIVE InjectiveSeqs(_, _)
InjectiveSeqs(S, n) ==
    IF n = 0 THEN {<<>>}
    ELSE LET shorter == InjectiveSeqs(S, n - 1)
         IN shorter \cup
            UNION {{Append(q, x) : x \in S \ {q[i] : i \in 1..Len(q)}} :
                   q \in {r \in shorter : Len(r) = n - 1}}

\* leaves: three digests, a string of another width than the digests at one
\* of the widths checked ("a1", "c3d4"), and ''
TreeLeafChoices ==
    {calculateSHA256(StrA1), calculateSHA256(StrB2), calculateSHA256(StrAB),
     StrA1, StrC3D4, EmptyStr}

TreeInputs ==
    UNION {UNION {{[leaves |-> ls, index |-> k, directions |-> d] :
                      d \in {x \in SeqsUpTo(BOOLEAN, MaxLeaves) :
                                Len(x) = Len(TreePath(ls, k))}} :
                  k \in 1..Len(ls)} :
           ls \in InjectiveSeqs(TreeLeafChoices, MaxLeaves) \ {<<>>}}

InitTree ==
    /\ tree \in {Some(t) : t \in TreeInputs}
    /\ MerkleIdle
    /\ PairIdle
    /\ StampIdle
    /\ AliasIdle
    /\ RequestIdle
    /\ ClientIdle

\* the proof of the chosen leaf is taken from the tree, with the drawn
\* direction bits
BuildProof ==
    /\ tree # None
    /\ mproof = None
    /\ mproof' = Some([leaf_hash |-> tree[1].leaves[tree[1].index],
                       leaf_index |-> tree[1].index - 1,
                       siblings |-> TreePath(tree[1].leaves, tree[1].index),
                       directions |-> tree[1].directions,
                       root_hash |-> TreeRoot(tree[1].leaves)])
    /\ mresult' = None
    /\ UNCHANGED <<maccepted, mflip, notMerkle>>

\* verifyMerkleProof is applied to the proof taken from the tree
VerifyBuiltProof ==
    /\ tree # None
    /\ mproof # None
    /\ CallVerifyMerkleProof

NextTree == BuildProof \/ VerifyBuiltProof

SpecTree == InitTree /\ [][NextTree]_vars

-----------------------------------------------------------------------------
(* Claims about the round trip, checked under SpecTree *)

\* the proof taken from the tree has been verified
RoundTripDone == tree # None /\ mproof # None /\ mresult # None

\* C15 as claimed: for any non-empty set of leaf hashes, the proof taken for
\* any leaf from the tree built bottom-up with hashPair is accepted by
\* verifyMerkleProof, with any direction bits of matching length.
C15_Original == RoundTripDone => mresult[1] = Return(TRUE)

\* every two nodes the construction pairs, at every level, decode to the same
\* number of bytes
RECURSIVE PairsAligned(_)
PairsAligned(level) ==
    \/ Len(level) <= 1
    \/ /\ \A k \in 1..(Len(level) \div 2) :
              Len(BufferFromHex(level[2 * k - 1])) = Len(BufferFromHex(level[2 * k]))
       /\ PairsAligned(NextLevel(level))

\* C15 amended: the proof taken for a leaf from the tree built bottom-up with
\* hashPair is accepted by verifyMerkleProof, with any direction bits of
\* matching length, when the leaf is not empty and every two nodes the
\* construction pairs decode to the same number of bytes, as hashes of one
\* width do.
C15_RoundTrip ==
    (/\ RoundTripDone
     /\ Truthy(mproof[1].leaf_hash)
     /\ PairsAligned(tree[1].leaves))
    => mresult[1] = Return(TRUE)

\* C15 witness: a tree of the most leaves, the proof of a left child with its
\* first sibling declared to be on the left, accepted
C15_Witness ==
    /\ RoundTripDone
    /\ Len(tree[1].leaves) = MaxLeaves
    /\ PairsAligned(tree[1].leaves)
    /\ tree[1].index = 1
    /\ Len(mproof[1].siblings) >= 2
    /\ mproof[1].directions[1] = FALSE
    /\ mresult[1] = Return(TRUE)

-----------------------------------------------------------------------------
(* SpecStamp: a Stamp is constructed from a drawn StampData, then verified *)

\* the original_hash and nonce the Stamp constructor derives from a record
EffectiveHash(h, o) == IF Truthy(o) THEN o ELSE h

EffectiveNonce(n) == IF Truthy(n) THEN n ELSE EmptyStr

\* leaf hashes tried for a record: its original hash, the digest of the text
\* nonce + original_hash, the digest of the bytes that text decodes to, and an
\* unrelated hash
StampLeafChoices(h, o, n) ==
    LET text == EffectiveNonce(n) \o EffectiveHash(h, o)
    IN {EffectiveHash(h, o), SHA256(BufferFromUtf8(text)), SHA256(BufferFromHex(text)), StrFF}

StampProofChoices(h, o, n) ==
    UNION {{[leaf_hash |-> l, leaf_index |-> 0, siblings |-> sib, directions |-> d,
             root_hash |-> r] :
                d \in {AllDirections(Len(sib), TRUE), AllDirections(Len(sib) + 1, FALSE)},
                r \in {CombinePath(l, sib, AllDirections(Len(sib), TRUE)), StrFF}} :
           l \in StampLeafChoices(h, o, n), sib \in SeqsUpTo({StrB2}, MaxSiblings)}

StampDataChoices ==
    UNION {{[stamp_id |-> "id", hash |-> h, original_hash |-> o, nonce |-> n,
             merkle_proof |-> mp] :
                mp \in {None} \cup {Some(p) : p \in StampProofChoices(h, o, n)}} :
           h \in {StrA1, StrC3D4, EmptyStr},
           o \in {Undefined, EmptyStr, StrA1, StrB2},
           n \in {Undefined, EmptyStr, StrAB}}

CandidateChoices == {StrA1, StrB2, StrC3D4, EmptyStr}

InitStamp ==
    /\ sdata \in {Some(d) : d \in StampDataChoices}
    /\ stamp = None
    /\ scandidate = None
    /\ sresult = None
    /\ MerkleIdle
    /\ PairIdle
    /\ TreeIdle
    /\ AliasIdle
    /\ RequestIdle
    /\ ClientIdle

\* new Stamp(data, verifyMerkleProof, calculateSHA256)
ConstructStamp ==
    /\ stamp = None
    /\ stamp' = Some(NewStamp(sdata[1]))
    /\ UNCHANGED <<sdata, scandidate, sresult, notStamp>>

\* a mutant: verify uses its proof up, the Stamp is left without one
CallStampVerify_consumesProof ==
    /\ stamp # None
    /\ \E c \in CandidateChoices :
          /\ scandidate' = Some(c)
          /\ sresult' = Some(StampVerify(stamp[1], c))
    /\ stamp' = Some([stamp[1] EXCEPT !.merkle_proof = None])
    /\ UNCHANGED <<sdata, notStamp>>

\* stamp.verify(c)
CallStampVerify ==
    /\ stamp # None
    /\ \E c \in CandidateChoices :
          /\ scandidate' = Some(c)
          /\ sresult' = Some(StampVerify(stamp[1], c))
    /\ UNCHANGED <<sdata, stamp, notStamp>>

NextStamp == ConstructStamp \/ CallStampVerify

SpecStamp == InitStamp /\ [][NextStamp]_vars

-----------------------------------------------------------------------------
(* Claims about Stamp.verify, checked under SpecStamp *)

\* the failure kinds of the verification contract and the messages of each
FailureKinds == {"ProofNotAvailable", "HashMismatch", "LeafHashMismatch", "ProofInvalid"}

KindMessages(k) ==
    IF k = "ProofNotAvailable" THEN {"Merkle proof not available for verification"}
    ELSE IF k = "HashMismatch" THEN {"Hash mismatch"}
    ELSE IF k = "LeafHashMismatch"
    THEN {"Leaf hash verification failed", "Legacy verification failed"}
    ELSE {"Merkle proof verification failed"}

\* the outcome r is a BasestampError of kind k and of no other kind
FailsWith(r, k) ==
    /\ r.threw
    /\ r.error = "BasestampError"
    /\ {j \in FailureKinds : r.message \in KindMessages(j)} = {k}

\* the mode-derived expected leaf of a Stamp: the digest of the text
\* nonce + original_hash in nonce mode, original_hash itself in legacy mode
ExpectedLeaf(s) ==
    IF s.nonce # EmptyStr
    THEN SHA256(BufferFromUtf8(s.nonce \o s.original_hash))
    ELSE s.original_hash

StampVerified == stamp # None /\ sresult # None

ProofAbsent == stamp[1].merkle_proof = None

CandidateDiffers == scandidate[1] # stamp[1].original_hash

LeafDiffers == ExpectedLeaf(stamp[1]) # stamp[1].merkle_proof[1].leaf_hash

StructureInvalid == verifyMerkleProof(stamp[1].merkle_proof) # Return(TRUE)

NonceCase ==
    /\ StampVerified
    /\ stamp[1].nonce # EmptyStr
    /\ ~ProofAbsent
    /\ ~CandidateDiffers

\* C3: in nonce mode (proof present, candidate = original_hash) verify fails
\* with LeafHashMismatch exactly when the digest of the text nonce +
\* original_hash differs from proof.leaf_hash, whatever verifyMerkleProof
\* says of the proof.
C3_NonceLeaf ==
    NonceCase =>
        (FailsWith(sresult[1], "LeafHashMismatch")
           <=> SHA256(BufferFromUtf8(stamp[1].nonce \o stamp[1].original_hash))
                 # stamp[1].merkle_proof[1].leaf_hash)

\* C3 witness: the leaf is the digest of the decoded bytes, not of the text,
\* the proof is structurally valid for that leaf, and verify failed with
\* LeafHashMismatch
C3_Witness ==
    /\ NonceCase
    /\ stamp[1].merkle_proof[1].leaf_hash
         = SHA256(BufferFromHex(stamp[1].nonce \o stamp[1].original_hash))
    /\ verifyMerkleProof(stamp[1].merkle_proof) = Return(TRUE)
    /\ FailsWith(sresult[1], "LeafHashMismatch")

\* legacy mode: the record's nonce is '' or missing, the proof is present and
\* the candidate equals original_hash
LegacyCase ==
    /\ StampVerified
    /\ sdata[1].nonce \in {EmptyStr, Undefined}
    /\ ~ProofAbsent
    /\ ~CandidateDiffers

\* C4: in legacy mode (nonce '' or missing, proof present, candidate =
\* original_hash) verify succeeds if and only if proof.leaf_hash is
\* original_hash verbatim and verifyMerkleProof(proof) is true.
C4_Legacy ==
    LegacyCase =>
        ((sresult[1] = Return(TRUE))
           <=> /\ stamp[1].merkle_proof[1].leaf_hash = stamp[1].original_hash
               /\ verifyMerkleProof(stamp[1].merkle_proof) = Return(TRUE))

\* C4 witness: a record without a nonce field verified successfully
C4_Witness ==
    /\ LegacyCase
    /\ sdata[1].nonce = Undefined
    /\ sresult[1] = Return(TRUE)

\* C4 second case: in legacy mode a structurally valid proof whose leaf is the
\* digest of original_hash, not original_hash itself, is refused
C4_RefusedCase ==
    /\ LegacyCase
    /\ stamp[1].merkle_proof[1].leaf_hash # stamp[1].original_hash
    /\ verifyMerkleProof(stamp[1].merkle_proof) = Return(TRUE)
    /\ sresult[1].threw

SameOutcome(r, q) ==
    \/ r = Return(TRUE) /\ q = Return(TRUE)
    \/ \E k \in FailureKinds : FailsWith(r, k) /\ FailsWith(q, k)

-----------------------------------------------------------------------------
(* Spec: getStamp calls on one BasestampClient, their requests settled by the
   transport in any order *)

\* largest whole number of seconds drawn as options.timeout
MaxTimeout == 3

StampIds == {"s1", "s2"}

TimeoutChoices ==
    {<<n, 1>> : n \in (-1)..MaxTimeout} \cup {<<-1, 2>>, <<2 * MaxTimeout - 1, 2>>}

\* options of a call: wait and timeout given or left out
OptionChoices ==
    {[wait |-> w, timeout |-> t] :
        w \in {None, Some(FALSE), Some(TRUE)},
        t \in {None} \cup {Some(x) : x \in TimeoutChoices}}
    \ {[wait |-> Some(TRUE), timeout |-> None]}

\* records the server answers with: one still without a proof, one with a
\* nonce and a valid proof, one without nonce whose leaf is its root and whose
\* original_hash is not its hash field
PendingRecord(id) ==
    [stamp_id |-> id, hash |-> StrA1, original_hash |-> Undefined, nonce |-> StrAB,
     merkle_proof |-> None]

\* the leaf of the nonce "ab" and the hash "a1", and the root its path leads to
NonceLeaf == SHA256(BufferFromUtf8(StrAB \o StrA1))

NonceRoot == CombinePath(NonceLeaf, <<StrB2>>, <<TRUE>>)

NonceRecord(id) ==
    [stamp_id |-> id, hash |-> StrA1, original_hash |-> Undefined, nonce |-> StrAB,
     merkle_proof |-> Some([leaf_hash |-> NonceLeaf, leaf_index |-> 0,
                            siblings |-> <<StrB2>>, directions |-> <<TRUE>>,
                            root_hash |-> NonceRoot])]

LegacyRecord(id) ==
    [stamp_id |-> id, hash |-> StrA1, original_hash |-> StrC3D4, nonce |-> Undefined,
     merkle_proof |-> Some([leaf_hash |-> StrC3D4, leaf_index |-> 1, siblings |-> <<>>,
                            directions |-> <<>>, root_hash |-> StrC3D4])]

\* a record whose proof does not lead from its leaf to its root
BadRootRecord(id) ==
    [NonceRecord(id) EXCEPT !.merkle_proof = Some([@[1] EXCEPT !.root_hash = StrFF])]

\* the ways the transport fails a request or answers it without a usable body
FailureEvents ==
    {Rejected("FetchError"), Rejected("AbortError"),
     Responded(FALSE, FALSE, None), Responded(TRUE, FALSE, None),
     Responded(TRUE, TRUE, None)}

\* the ways the transport settles a request for stamp id
FetchEvents(id) ==
    FailureEvents \cup
    {Responded(TRUE, TRUE, Some(PendingRecord(id))),
     Responded(TRUE, TRUE, Some(NonceRecord(id))),
     Responded(TRUE, TRUE, Some(LegacyRecord(id))),
     Responded(TRUE, TRUE, Some(BadRootRecord(id)))}

\* acknowledgments of a submission: with a stamp_id, without one, and with a
\* stamp_id that is '' or null
AckEvents ==
    FailureEvents \cup
    {Responded(TRUE, TRUE, Some([hash |-> StrA1, stamp_id |-> StrAB])),
     Responded(TRUE, TRUE, Some([hash |-> StrA1])),
     Responded(TRUE, TRUE, Some([hash |-> StrA1, stamp_id |-> EmptyStr])),
     Responded(TRUE, TRUE, Some([hash |-> StrA1, stamp_id |-> Undefined]))}

\* answers to info(), health() and batchStats()
InfoEvents == FailureEvents \cup {Responded(TRUE, TRUE, Some([status |-> "ok"]))}

\* the methods that await getStamp
GetStampMethods == {"getStamp", "verifyStamp", "get_merkle_proof"}

InfoMethods == {"info", "health", "batchStats"}

\* the method and URL path of the request a call makes
requestOf(call) ==
    IF call.method \in GetStampMethods THEN <<"GET", "/stamp/", call.stampId>>
    ELSE IF call.method = "submitSHA256" THEN <<"POST", "/stamp", "">>
    ELSE IF call.method = "info" THEN <<"GET", "/info", "">>
    ELSE IF call.method = "health" THEN <<"GET", "/health", "">>
    ELSE <<"GET", "/batch/stats", "">>

\* call c goes on as `after`: its caller resumes if getStamp has settled, and
\* the transport is handed the request if one was issued
Step(c, after) ==
    /\ calls' = [calls EXCEPT ![c] = Resolve(after)]
    /\ net' = IF after.fetches > calls[c].fetches
              THEN sendRequest(net, c, requestOf(after))
              ELSE net

\* the request of call c settles and the call goes on as `after`
Settled(c, after) ==
    /\ calls' = [calls EXCEPT ![c] = Resolve(after)]
    /\ net' = settleRequest(net, c)

InFlight(c) == calls[c].pc = "fetching" /\ \E r \in net.inflight : r.call = c

Init ==
    /\ ClientIdle
    /\ MerkleIdle
    /\ PairIdle
    /\ TreeIdle
    /\ StampIdle
    /\ AliasIdle
    /\ RequestIdle

\* a caller invokes client.getStamp(id, options)
GetStamp(c) ==
    /\ calls[c].pc = "idle"
    /\ \E id \in StampIds, options \in OptionChoices :
          Step(c, [getStampEnter([calls[c] EXCEPT !.method = "getStamp"], id, options)
                      EXCEPT !.options = options])
    /\ UNCHANGED notClient

\* a caller invokes client.verifyStamp(id) or client.verifyStamp(id, hashValue)
VerifyStamp(c) ==
    /\ calls[c].pc = "idle"
    /\ \E hashValue \in {None, Some(EmptyStr), Some(StrA1), Some(StrB2)} :
          Step(c, verifyStampEnter(calls[c], "s1", hashValue))
    /\ UNCHANGED notClient

\* a caller invokes client.get_merkle_proof(id), or (id, true, timeout)
GetMerkleProofCall(c) ==
    /\ calls[c].pc = "idle"
    /\ \E w \in {[wait |-> FALSE, timeout |-> <<DefaultTimeout, 1>>],
                  [wait |-> TRUE, timeout |-> <<2, 1>>]} :
          Step(c, get_merkle_proofEnter(calls[c], "s1", w.wait, w.timeout))
    /\ UNCHANGED notClient

\* a caller invokes client.submitSHA256(hash)
SubmitSHA256(c) ==
    /\ calls[c].pc = "idle"
    /\ Step(c, submitSHA256Enter(calls[c]))
    /\ UNCHANGED notClient

\* a caller invokes client.info(), client.health() or client.batchStats()
Info(c) ==
    /\ calls[c].pc = "idle"
    /\ \E method \in InfoMethods : Step(c, infoEnter(calls[c], method))
    /\ UNCHANGED notClient

\* the transport settles the request getStamp made for call c
FetchSettles(c) ==
    /\ InFlight(c)
    /\ calls[c].method \in GetStampMethods
    /\ \E ev \in FetchEvents(calls[c].stampId) :
          Settled(c, [getStampFetched(calls[c], ev) EXCEPT !.responses = Append(@, ev)])
    /\ UNCHANGED notClient

\* the transport settles the request of a submitSHA256 call
SubmitSettles(c) ==
    /\ InFlight(c)
    /\ calls[c].method = "submitSHA256"
    /\ \E ev \in AckEvents :
          Settled(c, [submitSHA256Settled(calls[c], ev) EXCEPT !.responses = Append(@, ev)])
    /\ UNCHANGED notClient

\* the transport settles the request of an info, health or batchStats call
InfoSettles(c) ==
    /\ InFlight(c)
    /\ calls[c].method \in InfoMethods
    /\ \E ev \in InfoEvents :
          Settled(c, [infoSettled(calls[c], ev) EXCEPT !.responses = Append(@, ev)])
    /\ UNCHANGED notClient

\* the one-second timer of call c fires
TimerFires(c) ==
    /\ calls[c].pc = "sleeping"
    /\ Step(c, getStampResumed(calls[c]))
    /\ UNCHANGED notClient

\* the caller of get_merkle_proof calls verify(h) on the MerkleProof it got
ProofVerify(c) ==
    /\ calls[c].pc = "done"
    /\ calls[c].method = "get_merkle_proof"
    /\ ~calls[c].outcome[1].threw
    /\ calls[c].proofVerify = None
    /\ \E h \in {StrA1, StrFF} :
          calls' = [calls EXCEPT ![c].proofVerify =
                       Some([candidate |-> h,
                             outcome |-> MerkleProofVerify(calls[c].outcome[1].value, h)])]
    /\ UNCHANGED <<net, notClient>>

Next ==
    \E c \in CallIds :
        \/ GetStamp(c)
        \/ VerifyStamp(c)
        \/ GetMerkleProofCall(c)
        \/ SubmitSHA256(c)
        \/ Info(c)
        \/ FetchSettles(c)
        \/ SubmitSettles(c)
        \/ InfoSettles(c)
        \/ TimerFires(c)
        \/ ProofVerify(c)

Spec == Init /\ [][Next]_vars

-----------------------------------------------------------------------------
(* Claims about getStamp, checked under Spec *)

\* how the transport settled a request, as the poll sees it
TransportFailure(ev) == ev.kind = "rejected" \/ ~ev.ok \/ ~ev.jsonValid

IsRecord(ev) == ~TransportFailure(ev) /\ ev.data # None

RecordWithoutProof(ev) == IsRecord(ev) /\ ev.data[1].merkle_proof = None

RecordWithProof(ev) == IsRecord(ev) /\ ev.data[1].merkle_proof # None

Done(c) == calls[c].pc = "done"

\* call c was made with wait: true
WaitGiven(c) == calls[c].method = "getStamp" /\ calls[c].options.wait = Some(TRUE)

\* call c was made with wait: false or without wait
WaitNotGiven(c) ==
    calls[c].method = "getStamp" /\ calls[c].options.wait \in {None, Some(FALSE)}

\* the timeout of call c, given or defaulted
TimeoutOf(c) ==
    IF calls[c].options.timeout = None THEN <<DefaultTimeout, 1>>
    ELSE calls[c].options.timeout[1]

\* call c ended by throwing a BasestampError with message m
Rejects(c, m) ==
    /\ Done(c)
    /\ calls[c].outcome[1].threw
    /\ calls[c].outcome[1].error = "BasestampError"
    /\ calls[c].outcome[1].message = m

\* every request of call c so far was answered by a record without proof
ProofNeverAppeared(c) ==
    \A i \in 1..Len(calls[c].responses) : RecordWithoutProof(calls[c].responses[i])

\* C5 as claimed: a wait=true call (ceil(timeout) >= 1) whose proof never
\* appears ends in Timeout after exactly ceil(timeout) fetches.
C5_Original ==
    \A c \in CallIds :
        (WaitGiven(c) /\ Ceil(TimeoutOf(c)) >= 1 /\ Done(c) /\ ProofNeverAppeared(c))
        => /\ Rejects(c, "Timeout waiting for stamp")
           /\ calls[c].fetches = Ceil(TimeoutOf(c))

\* C6: a call with wait false or omitted makes exactly one fetch and no
\* suspension whatever its timeout, and fails with 'Merkle proof not yet
\* available' when the fetched record has no proof.
C6_NoWait ==
    \A c \in CallIds :
        WaitNotGiven(c)
        => /\ calls[c].fetches = 1
           /\ calls[c].sleeps = 0
           /\ Len(calls[c].responses) = 1 => Done(c)
           /\ (Len(calls[c].responses) = 1 /\ RecordWithoutProof(calls[c].responses[1]))
                 => Rejects(c, "Merkle proof not yet available")

\* C6 witness: a wait=false call with a timeout of several seconds failed on
\* its only fetch because the record had no proof
C6_Witness ==
    \E c \in CallIds :
        /\ calls[c].method = "getStamp"
        /\ calls[c].options.wait = Some(FALSE)
        /\ calls[c].options.timeout # None
        /\ Ceil(TimeoutOf(c)) >= 2
        /\ calls[c].fetches = 1
        /\ Rejects(c, "Merkle proof not yet available")

\* the k-th response of call c is the first that carries a proof
FirstProofAt(c, k) ==
    /\ k \in 1..Len(calls[c].responses)
    /\ RecordWithProof(calls[c].responses[k])
    /\ \A i \in 1..(k - 1) : RecordWithoutProof(calls[c].responses[i])

\* C7: in a wait=true call, if the k-th fetch is the first whose record has a
\* proof, the call has ended by returning the Stamp built from that record,
\* k <= ceil(timeout), and exactly k fetches were ever issued.
C7_FirstProof ==
    \A c \in CallIds : \A k \in 1..Len(calls[c].responses) :
        (WaitGiven(c) /\ FirstProofAt(c, k))
        => /\ Done(c)
           /\ ~calls[c].outcome[1].threw
           /\ calls[c].outcome[1].value = NewStamp(calls[c].responses[k].data[1])
           /\ k <= Ceil(TimeoutOf(c))
           /\ calls[c].fetches = k
           /\ Len(calls[c].responses) = k

\* C7 witness: the proof appeared on the second of three possible attempts
C7_Witness ==
    \E c \in CallIds :
        /\ WaitGiven(c)
        /\ Ceil(TimeoutOf(c)) >= 3
        /\ FirstProofAt(c, 2)
        /\ Done(c)
        /\ ~calls[c].outcome[1].threw
        /\ calls[c].fetches = 2

\* C8: when a fetch of a call raises a transport failure, the call has
\* rejected with that failure, and no fetch and no suspension was started
\* after it: the failure is the last response, and every suspension lies
\* between two fetches.
C8_TransportFailure ==
    \A c \in CallIds : \A k \in 1..Len(calls[c].responses) :
        (calls[c].method = "getStamp" /\ TransportFailure(calls[c].responses[k]))
        => /\ k = Len(calls[c].responses)
           /\ Rejects(c, makeRequest(calls[c].responses[k]).message)
           /\ calls[c].fetches = k
           /\ calls[c].sleeps = k - 1

\* C8 witness: the second fetch of a wait=true call failed while attempts
\* remained, and the call rejected
C8_Witness ==
    \E c \in CallIds :
        /\ WaitGiven(c)
        /\ Len(calls[c].responses) = 2
        /\ TransportFailure(calls[c].responses[2])
        /\ calls[c].attempts < calls[c].maxAttempts - 1
        /\ Done(c)
        /\ calls[c].outcome[1].threw

-----------------------------------------------------------------------------
(* Claims about verifyStamp, get_merkle_proof, submitSHA256 and concurrent
   calls, checked under Spec *)

\* C16: verifyStamp and MerkleProof.verify report a failed verification of an
\* available proof by returning false, not by throwing, and return true only
\* for a proof that verifies.
C16_ReturnsFalse ==
    \A c \in CallIds :
        /\ (/\ calls[c].method = "verifyStamp"
            /\ Done(c)
            /\ Len(calls[c].responses) = 1
            /\ RecordWithProof(calls[c].responses[1]))
           => /\ ~calls[c].outcome[1].threw
              /\ calls[c].outcome[1].value
                   = (StampVerify(NewStamp(calls[c].responses[1].data[1]),
                                  IF calls[c].hashValue # None /\ Truthy(calls[c].hashValue[1])
                                  THEN calls[c].hashValue[1]
                                  ELSE NewStamp(calls[c].responses[1].data[1]).original_hash)
                        = Return(TRUE))
        /\ calls[c].proofVerify # None => ~calls[c].proofVerify[1].outcome.threw

\* C17: verifyStamp makes exactly one fetch and no suspension, and when the
\* fetched record has no proof it rejects with 'Merkle proof not yet
\* available' without having called stamp.verify.
C17_NeverWaits ==
    \A c \in CallIds :
        calls[c].method = "verifyStamp"
        => /\ calls[c].fetches = 1
           /\ calls[c].sleeps = 0
           /\ Len(calls[c].responses) = 1 => Done(c)
           /\ (Len(calls[c].responses) = 1 /\ RecordWithoutProof(calls[c].responses[1]))
                 => /\ Rejects(c, "Merkle proof not yet available")
                    /\ calls[c].verifies = 0

\* C17 witness: verifyStamp with a hash value met a record without proof and
\* rejected after its only fetch, stamp.verify not called
C17_Witness ==
    \E c \in CallIds :
        /\ calls[c].method = "verifyStamp"
        /\ calls[c].hashValue = Some(StrA1)
        /\ calls[c].fetches = 1
        /\ Len(calls[c].responses) = 1
        /\ RecordWithoutProof(calls[c].responses[1])
        /\ Rejects(c, "Merkle proof not yet available")
        /\ calls[c].verifies = 0

\* getStamp run alone on the responses rs: every response but the last is
\* followed by the delay and the next request
RECURSIVE Replay(_, _)
Replay(call, rs) ==
    IF rs = <<>> THEN call
    ELSE LET after == [getStampFetched(call, Head(rs)) EXCEPT !.responses = Append(@, Head(rs))]
         IN IF Tail(rs) = <<>> THEN after
            ELSE Replay(getStampResumed(after), Tail(rs))

\* what the getStamp call c does when it is the only call on the client and
\* its requests are answered as the requests of c were
Alone(c) ==
    Replay([getStampEnter([IdleCall EXCEPT !.method = "getStamp"],
                          calls[c].stampId, calls[c].options)
               EXCEPT !.options = calls[c].options],
           calls[c].responses)

RECURSIVE SumFetches(_)
SumFetches(S) ==
    IF S = {} THEN 0
    ELSE LET c == CHOOSE x \in S : TRUE IN calls[c].fetches + SumFetches(S \ {c})

\* C18: concurrent getStamp calls are independent: the transport is handed one
\* request for every fetch of every call, a request of its own for each call
\* that is fetching, and each call is where it would be had it run alone on
\* the responses to its own fetches.
C18_Independent ==
    /\ net.sent = SumFetches(CallIds)
    /\ \A c \in CallIds :
          {r \in net.inflight : r.call = c}
            = IF calls[c].pc = "fetching"
              THEN {[call |-> c, path |-> requestOf(calls[c])]}
              ELSE {}
    /\ \A c \in CallIds :
          calls[c].method = "getStamp"
          => \/ calls[c] = Alone(c)
             \/ Alone(c).pc = "sleeping" /\ calls[c] = getStampResumed(Alone(c))

\* C18 witness: two wait=true calls for the same stamp_id, both with a request
\* in flight at once, one on its second fetch and the other on its first
C18_Witness ==
    \E c, d \in CallIds :
        /\ c # d
        /\ WaitGiven(c)
        /\ WaitGiven(d)
        /\ calls[c].stampId = calls[d].stampId
        /\ calls[c].pc = "fetching"
        /\ calls[d].pc = "fetching"
        /\ calls[c].fetches = 2
        /\ calls[d].fetches = 1
        /\ Cardinality(net.inflight) = 2

\* C19: every failure of a client method surfaces as a BasestampError.
C19_OnlyBasestampError ==
    \A c \in CallIds :
        (Done(c) /\ calls[c].outcome[1].threw)
        => calls[c].outcome[1].error = "BasestampError"

-----------------------------------------------------------------------------
(* Claims about what the client returns, checked under Spec *)

\* the record the last request of call c was answered with
LastRecord(c) == calls[c].responses[Len(calls[c].responses)].data[1]

\* call c is a get_merkle_proof call whose last request was answered with a
\* record that has a proof
ProofFetched(c) ==
    /\ calls[c].method = "get_merkle_proof"
    /\ calls[c].responses # <<>>
    /\ RecordWithProof(calls[c].responses[Len(calls[c].responses)])

\* the MerkleProof mp has the five proof fields of the record rec and its nonce
CarriesProofOf(mp, rec) ==
    /\ \A f \in {"leaf_hash", "leaf_index", "siblings", "directions", "root_hash"} :
          mp[f] = rec.merkle_proof[1][f]
    /\ mp.nonce = EffectiveNonce(rec.nonce)

C23_OneSecondBetween ==
    \A c \in CallIds :
        WaitGiven(c)
        => /\ calls[c].pc = "fetching" => calls[c].sleeps = calls[c].fetches - 1
           /\ calls[c].pc = "sleeping"
                 => /\ calls[c].sleeps = calls[c].fetches
                    /\ Len(calls[c].responses) = calls[c].fetches
                    /\ getStampResumed(calls[c]).pc = "fetching"
           /\ (Done(c) /\ calls[c].fetches >= 1) => calls[c].sleeps = calls[c].fetches - 1
           /\ calls[c].fetches = 0 => calls[c].sleeps = 0
           /\ calls[c].sleeps > 0 => calls[c].delay = delayMs

\* C23 witness: a poll of three fetches that ended in failure after two
\* suspensions
C23_Witness ==
    \E c \in CallIds :
        /\ WaitGiven(c)
        /\ Done(c)
        /\ calls[c].outcome[1].threw
        /\ calls[c].fetches = 3
        /\ calls[c].sleeps = 2
        /\ calls[c].delay = delayMs

\* C26: a Stamp that getStamp returned has its proof: stamp.verify does not
\* fail with ProofNotAvailable on it, whatever the candidate, and
\* getMerkleProof does not throw; so verifyStamp and get_merkle_proof never
\* end with the message of a Stamp without proof.
C26_ProofPresent ==
    \A c \in CallIds :
        /\ (calls[c].method = "getStamp" /\ Done(c) /\ ~calls[c].outcome[1].threw)
           => LET s == calls[c].outcome[1].value IN
              /\ s.merkle_proof # None
              /\ \A h \in CandidateChoices : ~FailsWith(StampVerify(s, h), "ProofNotAvailable")
              /\ ~GetMerkleProof(s).threw
        /\ (calls[c].method \in {"verifyStamp", "get_merkle_proof"} /\ Done(c)
              /\ calls[c].outcome[1].threw)
           => calls[c].outcome[1].message
                \notin {"Merkle proof not available for verification",
                        "Merkle proof not available"}

\* C26 witness: a wait=true call met a record without proof, then one with a
\* proof, and returned a Stamp that verifies
C26_Witness ==
    \E c \in CallIds :
        /\ WaitGiven(c)
        /\ Done(c)
        /\ Len(calls[c].responses) = 2
        /\ RecordWithoutProof(calls[c].responses[1])
        /\ ~calls[c].outcome[1].threw
        /\ StampVerify(calls[c].outcome[1].value, calls[c].outcome[1].value.original_hash)
             = Return(TRUE)

\* C28: when verifyStamp is given a hashValue and the fetched record has a
\* proof, it returns true only if hashValue is the original_hash of the
\* Stamp, and a hashValue that differs makes it fail with HashMismatch.
C28_SuppliedHash ==
    \A c \in CallIds :
        (/\ calls[c].method = "verifyStamp"
         /\ calls[c].hashValue # None
         /\ Done(c)
         /\ Len(calls[c].responses) = 1
         /\ RecordWithProof(calls[c].responses[1]))
        => LET s == NewStamp(calls[c].responses[1].data[1])
               h == calls[c].hashValue[1]
           IN /\ calls[c].outcome[1] = Return(TRUE) => h = s.original_hash
              /\ h # s.original_hash => FailsWith(calls[c].outcome[1], "HashMismatch")

\* verifyStamp was given '' for a record whose original_hash is not '' and
\* returned true
EmptyHashAccepted ==
    \E c \in CallIds :
        /\ calls[c].method = "verifyStamp"
        /\ calls[c].hashValue = Some(EmptyStr)
        /\ Done(c)
        /\ calls[c].outcome[1] = Return(TRUE)

\* C29: a wait=true call whose timeout is zero or negative has ended with the
\* Timeout error without any fetch and without any suspension.
C29_NoBudget ==
    \A c \in CallIds :
        (WaitGiven(c) /\ TimeoutOf(c)[1] <= 0)
        => /\ Rejects(c, "Timeout waiting for stamp")
           /\ calls[c].fetches = 0
           /\ calls[c].sleeps = 0
           /\ calls[c].responses = <<>>
           /\ \A r \in net.inflight : r.call # c

\* C29 witness: a wait=true call with a timeout of minus half a second, whose
\* ceiling is zero, ended with the Timeout error
C29_Witness ==
    \E c \in CallIds :
        /\ WaitGiven(c)
        /\ TimeoutOf(c) = <<-1, 2>>
        /\ Rejects(c, "Timeout waiting for stamp")
        /\ calls[c].fetches = 0
        /\ net.sent = 0

\* C30: for every acknowledgment of a submission submitSHA256 resolves to an
\* identifier that can be used: the stamp_id of the acknowledgment when it
\* has one, its hash otherwise, and never to undefined, null or ''.
C30_UsableId ==
    \A c \in CallIds :
        (/\ calls[c].method = "submitSHA256"
         /\ Done(c)
         /\ IsRecord(calls[c].responses[1]))
        => LET ack == calls[c].responses[1].data[1] IN
           /\ ~calls[c].outcome[1].threw
           /\ calls[c].outcome[1].value
                = IF "stamp_id" \in DOMAIN ack THEN ack.stamp_id ELSE ack.hash
           /\ Truthy(calls[c].outcome[1].value)

\* submitSHA256 resolved to the hash of an acknowledgment without stamp_id
HashAsId ==
    \E c \in CallIds :
        /\ calls[c].method = "submitSHA256"
        /\ Done(c)
        /\ IsRecord(calls[c].responses[1])
        /\ "stamp_id" \notin DOMAIN calls[c].responses[1].data[1]
        /\ calls[c].outcome[1] = Return(calls[c].responses[1].data[1].hash)

-----------------------------------------------------------------------------
(* SpecPoll: one getStamp call whose requests and delays all complete in the
   end: a request in flight is settled by the transport, a timer that was
   started fires.  Calls do not act on one another (C18), so one call is
   followed *)

\* the call that is followed
PollCall == CHOOSE c \in CallIds : TRUE

NextPoll ==
    \/ GetStamp(PollCall)
    \/ FetchSettles(PollCall)
    \/ TimerFires(PollCall)

SpecPoll ==
    /\ Init
    /\ [][NextPoll]_vars
    /\ WF_vars(FetchSettles(PollCall))
    /\ WF_vars(TimerFires(PollCall))

\* the messages of a transport failure as getStamp passes it on
TransportMessages ==
    {"Request timeout", "Request failed", "Server returned error", "Failed to get stamp"}

\* the ways a getStamp call ends: a Stamp with its proof, ProofNotAvailable,
\* Timeout, or a transport failure
EndsAsSpecified(r) ==
    IF r.threw
    THEN /\ r.error = "BasestampError"
         /\ r.message \in {"Merkle proof not yet available", "Timeout waiting for stamp"}
                            \cup TransportMessages
    ELSE r.value.merkle_proof # None

\* the number of requests a getStamp call may make
FetchLimit(c) == IF calls[c].wait THEN Ceil(calls[c].timeout) ELSE 1

\* C24: when every request and every delay completes, every getStamp call
\* that was made ends, in a Stamp, ProofNotAvailable, Timeout or a transport
\* failure; it never makes more than ceil(timeout) requests with wait=true
\* and never more than one with wait=false.
C24_Terminates ==
    /\ \A c \in CallIds : (calls[c].pc # "idle") ~> Done(c)
    /\ [](\A c \in CallIds :
             /\ calls[c].pc \notin {"idle", "done"} => calls[c].fetches <= FetchLimit(c)
             /\ Done(c) => /\ EndsAsSpecified(calls[c].outcome[1])
                           /\ calls[c].fetches <= IF FetchLimit(c) > 0 THEN FetchLimit(c) ELSE 0)

\* C24 witness: a wait=true call used every one of its three attempts and ended
C24_Witness ==
    \E c \in CallIds :
        /\ WaitGiven(c)
        /\ Done(c)
        /\ FetchLimit(c) = 3
        /\ calls[c].fetches = 3
        /\ calls[c].sleeps = 2
        /\ Rejects(c, "Merkle proof not yet available")

-----------------------------------------------------------------------------
(* SpecRequest: one makeRequest of a client, from its fetch to its end, and
   the moment its timeout has passed *)

notRequest == <<merkleVars, pair, tree, stampVars, heap, clientVars>>

\* options a client is constructed with: no timeout, 0, and five seconds
ClientOptionChoices == {[timeout |-> t] : t \in {None, Some(0), Some(5000)}}

\* the requests the methods of the client make
RequestChoices ==
    {<<"POST", "/stamp">>, <<"GET", "/stamp/s1">>, <<"GET", "/info">>,
     <<"GET", "/health">>, <<"GET", "/batch/stats">>}

InitRequest ==
    /\ req \in {Some([client |-> NewClient(o), request |-> None]) : o \in ClientOptionChoices}
    /\ MerkleIdle
    /\ PairIdle
    /\ TreeIdle
    /\ StampIdle
    /\ AliasIdle
    /\ ClientIdle

\* a method of the client calls makeRequest
MakeRequest ==
    /\ req[1].request = None
    /\ \E q \in RequestChoices :
          req' = Some([req[1] EXCEPT
                          !.request = Some(makeRequestEnter(req[1].client, q[1], q[2]))])
    /\ UNCHANGED notRequest

Pending(pc) == req[1].request # None /\ req[1].request[1].pc = pc

\* the transport answers: fetch resolves with a response, ok or not
ResponseArrives ==
    /\ Pending("fetch")
    /\ \E ok \in BOOLEAN :
          req' = Some([req[1] EXCEPT !.request = Some(makeRequestResponded(@[1], ok))])
    /\ UNCHANGED notRequest

\* the transport fails: fetch rejects with a network error
FetchRejects ==
    /\ Pending("fetch")
    /\ req' = Some([req[1] EXCEPT
                       !.request = Some(makeRequestCaught(@[1], Rejected("FetchError")))])
    /\ UNCHANGED notRequest

\* the body has arrived and response.json() settles
BodyDecoded ==
    /\ Pending("json")
    /\ \E jsonValid \in BOOLEAN, data \in {None, Some([status |-> "ok"])} :
          /\ ~jsonValid => data = None
          /\ req' = Some([req[1] EXCEPT
                             !.request = Some(makeRequestDecoded(@[1], jsonValid, data))])
    /\ UNCHANGED notRequest

\* the timeout of the client has passed since the request was made
TimeoutPasses ==
    /\ req[1].request # None
    /\ ~req[1].request[1].elapsed
    /\ req' = Some([req[1] EXCEPT !.request = Some(makeRequestTimedOut(@[1]))])
    /\ UNCHANGED notRequest

NextRequest ==
    \/ MakeRequest
    \/ ResponseArrives
    \/ FetchRejects
    \/ BodyDecoded
    \/ TimeoutPasses

SpecRequest == InitRequest /\ [][NextRequest]_vars

-----------------------------------------------------------------------------
(* Claims about the request timeout, checked under SpecRequest *)

\* C25: the timeout of the client covers a request until its body is
\* decoded: a request that had not ended when the timeout passed, whether its
\* response or its body was awaited, has failed with 'Request timeout'.
C25_CoversWholeRequest ==
    (req # None /\ req[1].request # None)
    => LET r == req[1].request[1] IN
       (r.elapsed /\ r.pendingAt # "done")
       => /\ r.pc = "done"
          /\ r.outcome = Some(ThrowBasestampError("Request timeout"))

\* the timeout passed while the body was awaited and the request went on to
\* return the decoded body
LateBodyReturned ==
    /\ req # None
    /\ req[1].request # None
    /\ req[1].request[1].elapsed
    /\ req[1].request[1].pendingAt = "json"
    /\ req[1].request[1].pc = "done"
    /\ ~req[1].request[1].outcome[1].threw

-----------------------------------------------------------------------------
(* SpecAlias: the objects behind a Stamp.  A proof object and its two arrays
   live at addresses; a field that holds an object holds its address, so that
   two fields can hold the same object *)

notAlias == <<merkleVars, pair, tree, stampVars, clientVars, req>>

\* the decoded record `data` on the heap: its proof object at p0, the arrays
\* of the proof at s0 and d0
StoreRecord(data) ==
    [data |-> [data EXCEPT !.merkle_proof = Some("p0")],
     proofs |-> [a \in {"p0"} |-> [data.merkle_proof[1] EXCEPT !.siblings = "s0",
                                                               !.directions = "d0"]],
     siblingsAt |-> [a \in {"s0"} |-> data.merkle_proof[1].siblings],
     directionsAt |-> [a \in {"d0"} |-> data.merkle_proof[1].directions],
     stamp |-> None, returned |-> None, first |-> None, last |-> None]

\* the proof object at address a as verification reads it now
Load(h, a) ==
    [leaf_hash |-> h.proofs[a].leaf_hash,
     leaf_index |-> h.proofs[a].leaf_index,
     siblings |-> h.siblingsAt[h.proofs[a].siblings],
     directions |-> h.directionsAt[h.proofs[a].directions],
     root_hash |-> h.proofs[a].root_hash]

\* records a Stamp is built from: a valid nonce record, a legacy record whose
\* leaf is its root, and a record whose root is wrong
AliasRecords ==
    {NonceRecord("s1"), LegacyRecord("s1"), BadRootRecord("s1")}

\* strings written into a proof: an unrelated hash and the root of NonceRecord
WrittenChoices == {StrFF, NonceRecord("s1").merkle_proof[1].root_hash}

InitAlias ==
    /\ heap \in {Some(StoreRecord(d)) : d \in AliasRecords}
    /\ MerkleIdle
    /\ PairIdle
    /\ TreeIdle
    /\ StampIdle
    /\ ClientIdle
    /\ RequestIdle

\* new Stamp(data, ...): this.merkle_proof = data.merkle_proof copies the
\* address held by the record
ConstructOnHeap ==
    /\ heap[1].stamp = None
    /\ heap' = Some([heap[1] EXCEPT !.stamp = Some(NewStamp(heap[1].data))])
    /\ UNCHANGED notAlias

\* stamp.verify(stamp.original_hash); the first outcome is kept apart
VerifyOnHeap ==
    /\ heap[1].stamp # None
    /\ LET s == heap[1].stamp[1]
           r == StampVerify([s EXCEPT !.merkle_proof = Some(Load(heap[1], @[1]))],
                            s.original_hash)
       IN heap' = Some(IF heap[1].first = None
                       THEN [heap[1] EXCEPT !.first = Some(r)]
                       ELSE [heap[1] EXCEPT !.last = Some(r)])
    /\ UNCHANGED notAlias

\* stamp.getMerkleProof(): the new MerkleProof gets the fields of the proof
\* object of the Stamp, the addresses of its arrays among them
GetMerkleProofOnHeap ==
    /\ heap[1].stamp # None
    /\ heap[1].first # None
    /\ heap[1].returned = None
    /\ LET s == heap[1].stamp[1]
           r == GetMerkleProof([s EXCEPT !.merkle_proof = Some(heap[1].proofs[@[1]])])
       IN heap' = Some([heap[1] EXCEPT !.returned = Some(r.value)])
    /\ UNCHANGED notAlias

\* the holder of the record writes data.merkle_proof.root_hash = x
RecordSetsRoot ==
    /\ heap[1].first # None
    /\ \E x \in WrittenChoices :
          heap' = Some([heap[1] EXCEPT !.proofs[heap[1].data.merkle_proof[1]].root_hash = x,
                                       !.last = None])
    /\ UNCHANGED notAlias

\* the holder of the record calls data.merkle_proof.siblings.push(x)
RecordPushesSibling ==
    /\ heap[1].first # None
    /\ LET a == heap[1].proofs[heap[1].data.merkle_proof[1]].siblings IN
       /\ Len(heap[1].siblingsAt[a]) < MaxSiblings
       /\ heap' = Some([heap[1] EXCEPT !.siblingsAt[a] = Append(@, StrB2),
                                       !.last = None])
    /\ UNCHANGED notAlias

\* the holder of the MerkleProof writes proof.root_hash = x
ProofSetsRoot ==
    /\ heap[1].returned # None
    /\ \E x \in WrittenChoices :
          heap' = Some([heap[1] EXCEPT !.returned = Some([@[1] EXCEPT !.root_hash = x]),
                                       !.last = None])
    /\ UNCHANGED notAlias

\* the holder of the MerkleProof calls proof.directions.push(true)
ProofPushesDirection ==
    /\ heap[1].returned # None
    /\ LET a == heap[1].returned[1].directions IN
       /\ Len(heap[1].directionsAt[a]) < MaxSiblings
       /\ heap' = Some([heap[1] EXCEPT !.directionsAt[a] = Append(@, TRUE),
                                       !.last = None])
    /\ UNCHANGED notAlias

NextAlias ==
    \/ ConstructOnHeap
    \/ VerifyOnHeap
    \/ GetMerkleProofOnHeap
    \/ RecordSetsRoot
    \/ RecordPushesSibling
    \/ ProofSetsRoot
    \/ ProofPushesDirection

SpecAlias == InitAlias /\ [][NextAlias]_vars

-----------------------------------------------------------------------------
(* Claims about ownership, checked under SpecAlias *)

\* C20: after a Stamp is constructed no other object shares its proof object
\* or the siblings and directions arrays of its proof, and stamp.verify gives
\* what it gave first whatever is written through the record or through a
\* MerkleProof returned by getMerkleProof.
C20_Snapshot ==
    (heap # None /\ heap[1].stamp # None)
    => LET h == heap[1]
           own == h.proofs[h.stamp[1].merkle_proof[1]]
       IN /\ h.data.merkle_proof # h.stamp[1].merkle_proof
          /\ h.returned # None
               => /\ h.returned[1].siblings # own.siblings
                  /\ h.returned[1].directions # own.directions
          /\ (h.first # None /\ h.last # None) => h.last = h.first

\* a verification that succeeded first and throws later, the root of the
\* proof being what it was: an array of the proof was written to
OutcomeChanged ==
    /\ heap # None
    /\ heap[1].first = Some(Return(TRUE))
    /\ heap[1].last # None
    /\ heap[1].last[1].threw
    /\ heap[1].returned # None
    /\ Load(heap[1], "p0").root_hash = NonceRecord("s1").merkle_proof[1].root_hash

====
